---------------------------- MODULE Spec2Model ----------------------------
(***************************************************************************)
(* Model of the absqrtc package: the value type ABSqrtC, a + b*sqrt(c),    *)
(* with exact rational coefficients, its interning constructor and its     *)
(* operators on two instances.                                             *)
(*                                                                         *)
(* A Fraction is modelled as the pair <<numerator, denominator>> that      *)
(* fractions.Fraction keeps: lowest terms, denominator > 0.  An instance   *)
(* is the record of the fields _init assigns; of the float _value the      *)
(* record keeps the sign, which is what __abs__ reads.  The class          *)
(* attribute _cache is a function from canonical triples to instances.     *)
(* The variable last holds the outcome of the latest call: the operation,  *)
(* its arguments, and the instance returned or the exception raised.       *)
(*                                                                         *)
(* conjugate and inverse are cached properties: a second access returns    *)
(* the instance the first one stored.  The constructor returns that same   *)
(* instance from _cache, so the model constructs on every access.          *)
(* The operators are modelled for an ABSqrtC right operand; the branches   *)
(* for a plain number (int, Fraction, Decimal, str) are left out.          *)
(*                                                                         *)
(* Spec is a client of the constructor and of every operator.  SpecNew,    *)
(* SpecFraction and SpecPow are a first constructor call over wider        *)
(* arguments (the last followed by one power), and SpecRelease is a client *)
(* that constructs values and releases its references to them.             *)
(***************************************************************************)
EXTENDS Integers, Sequences, FiniteSets, TLC

VARIABLES cache, last

vars == <<cache, last>>

---------------------------------------------------------------------------
(* Bounds of the model.                                                    *)

\* A first constructor call takes a, b among n/d with |n| <= MaxNum and
\* 1 <= d <= MaxDen, and its radicand in -1 .. MaxRadicand.
MaxNum == 2
MaxDen == 2
MaxRadicand == 9
\* A client of the operators constructs its operands from a, b in
\* 0 .. MaxOperand and a radicand in -1 .. MaxOperandRadicand; the operators
\* produce the negative and the fractional values.
MaxOperand == 1
MaxOperandRadicand == 4
\* Exponents of ** range over 0 .. MaxPow.
MaxPow == 2
\* A radicand given as a Fraction is n/d with 1 <= n <= MaxRadicand and
\* 1 <= d <= MaxRadicandDen.
MaxRadicandDen == 4
\* A power taken right after a first constructor call has its exponent in
\* 0 .. MaxExponent.
MaxExponent == 4
\* At most MaxCache instances are constructed in one run.
MaxCache == 3
\* Instances are constructed while the numerators and denominators of add
\* and factor stay within MaxCoefficient (Python's integers are unbounded).
MaxCoefficient == 64

---------------------------------------------------------------------------
(* fractions.Fraction                                                      *)

Abs(n) == IF n < 0 THEN -n ELSE n

RECURSIVE Gcd(_, _)
Gcd(m, n) == IF n = 0 THEN Abs(m) ELSE Gcd(n, m % n)

\* Fraction(n, d): reduce to lowest terms with a positive denominator.
F(n, d) ==
    LET g == Gcd(Abs(n), Abs(d))
        s == IF d < 0 THEN -1 ELSE 1
    IN  <<(s * n) \div g, (s * d) \div g>>

FInt(n) == <<n, 1>>

FAdd(p, q) == F(p[1] * q[2] + q[1] * p[2], p[2] * q[2])

FSub(p, q) == F(p[1] * q[2] - q[1] * p[2], p[2] * q[2])

FMul(p, q) == F(p[1] * q[1], p[2] * q[2])

\* Defined for q # 0 only; Fraction.__truediv__ raises ZeroDivisionError otherwise.
FDiv(p, q) == F(p[1] * q[2], p[2] * q[1])

FNeg(p) == <<-p[1], p[2]>>

FAbs(p) == <<Abs(p[1]), p[2]>>

FIsZero(p) == p[1] = 0

FLess(p, q) == p[1] * q[2] < q[1] * p[2]

RECURSIVE FPow(_, _)
FPow(p, k) == IF k = 0 THEN FInt(1) ELSE FMul(p, FPow(p, k - 1))

FSign(p) == IF p[1] > 0 THEN 1 ELSE IF p[1] < 0 THEN -1 ELSE 0

---------------------------------------------------------------------------
(* _get_square_factors: separate all square factors of the number.         *)

\* A variant of the inner loop that divides n_int and leaves square_factor.
RECURSIVE while_divides_unscaled(_, _, _)
while_divides_unscaled(i, square_factor, n_int) ==
    IF n_int % (i * i) = 0
    THEN while_divides_unscaled(i, square_factor, n_int \div (i * i))
    ELSE <<square_factor, n_int>>

\* The inner loop: while not n_int % square.
RECURSIVE while_divides(_, _, _)
while_divides(i, square_factor, n_int) ==
    IF n_int % (i * i) = 0
    THEN while_divides(i, FMul(square_factor, FInt(i)), n_int \div (i * i))
    ELSE <<square_factor, n_int>>

\* A variant of the outer loop that is left already when i * i = n.
RECURSIVE for_count_exclusive(_, _, _, _)
for_count_exclusive(n, i, square_factor, n_int) ==
    IF FLess(n, FInt(i * i)) \/ n = FInt(i * i)
    THEN <<square_factor, n_int>>
    ELSE LET r == while_divides(i, square_factor, n_int)
         IN  for_count_exclusive(n, i + 1, r[1], r[2])

\* The outer loop: for i in count(2), left when i * i > n.
RECURSIVE for_count(_, _, _, _)
for_count(n, i, square_factor, n_int) ==
    IF FLess(n, FInt(i * i))
    THEN <<square_factor, n_int>>
    ELSE LET r == while_divides(i, square_factor, n_int)
         IN  for_count(n, i + 1, r[1], r[2])

\* n is a Fraction > 0; the result is <<square_factor, n_int>>.
_get_square_factors(n) == for_count(n, 2, F(1, n[2]), n[1] * n[2])

---------------------------------------------------------------------------
(* ABSqrtC.__new__ and ABSqrtC._init                                       *)

\* An argument left out of the call.
None == <<>>

\* The sign of a + b * sqrt(c), c >= 1: what the operators read of _value.
value_sign(a, b, c) ==
    LET sa == FSign(a)
        sb == FSign(b)
        a2 == FMul(a, a)
        b2c == FMul(FMul(b, b), FInt(c))
    IN  IF sb = 0 THEN sa
        ELSE IF sa = 0 THEN sb
        ELSE IF sa = sb THEN sa
        ELSE IF a2 = b2c THEN 0
        ELSE IF FLess(b2c, a2) THEN sa
        ELSE sb

\* A variant of _init whose conjugate product leaves the radical out.
init_rational_norm(a, b, c) ==
    [add |-> a, factor |-> b, radical |-> c,
     value |-> value_sign(a, b, c),
     conjugate_product |-> FSub(FMul(a, a), FMul(b, b)),
     factor_abs |-> FAbs(b)]

\* The fields _init assigns.
_init(a, b, c) ==
    [add |-> a, factor |-> b, radical |-> c,
     value |-> value_sign(a, b, c),
     conjugate_product |-> FSub(FMul(a, a), FMul(FMul(b, b), FInt(c))),
     factor_abs |-> FAbs(b)]

\* A variant of lines 30-40 that keeps c when b is zero.
new_fractions_keep_c(a, bc, c) ==
    IF bc = None THEN <<a, FInt(0), FInt(1)>>
    ELSE IF c = None THEN <<a, FInt(1), bc>>
    ELSE <<a, bc, c>>

\* Lines 30-40: the three Fractions the arguments stand for.
new_fractions(a, bc, c) ==
    IF bc = None THEN <<a, FInt(0), FInt(1)>>
    ELSE IF c = None THEN <<a, FInt(1), bc>>
    ELSE <<a, bc, IF FIsZero(bc) THEN FInt(1) ELSE c>>

\* Lines 42-52: the canonical triple, or the ValueError.
new_key(a, bc, c) ==
    LET fr == new_fractions(a, bc, c)
        frac_a == fr[1]
        frac_b == fr[2]
        frac_c == IF FIsZero(fr[3]) THEN FInt(1) ELSE fr[3]
    IN  IF FLess(fr[3], FInt(0))
        THEN [err |-> "ValueError", msg |-> <<fr[3]>>, key |-> <<>>]
        ELSE LET sq == _get_square_factors(frac_c)
                 b_mul == sq[1]
             IN  IF sq[2] = 1
                 THEN [err |-> "", msg |-> <<>>,
                       key |-> <<FAdd(frac_a, FMul(frac_b, b_mul)), FInt(0), 1>>]
                 ELSE [err |-> "", msg |-> <<>>,
                       key |-> <<frac_a, FMul(frac_b, b_mul), sq[2]>>]

\* A raised exception: no value is produced.
Raise(type, msg) == [err |-> type, msg |-> msg, key |-> <<>>]

\* The live instances.
Instances == {cache[k] : k \in DOMAIN cache}

\* The triples the model constructs instances for.
InRange(key) ==
    \A f \in {key[1], key[2]} : Abs(f[1]) <= MaxCoefficient /\ f[2] <= MaxCoefficient

\* A variant of Return in which a raised exception empties _cache.
return_dropping_on_raise(op, args, r) ==
    IF r.err # ""
    THEN /\ cache' = <<>>
         /\ last' = [op |-> op, args |-> args, err |-> r.err, msg |-> r.msg,
                     res |-> <<>>]
    ELSE IF r.key \in DOMAIN cache
    THEN /\ cache' = cache
         /\ last' = [op |-> op, args |-> args, err |-> "", msg |-> <<>>,
                     res |-> cache[r.key]]
    ELSE /\ Cardinality(DOMAIN cache) < MaxCache
         /\ InRange(r.key)
         /\ cache' = cache @@ (r.key :> _init(r.key[1], r.key[2], r.key[3]))
         /\ last' = [op |-> op, args |-> args, err |-> "", msg |-> <<>>,
                     res |-> _init(r.key[1], r.key[2], r.key[3])]

\* Lines 54-60 and the return to the caller: r is the outcome of lines 30-52
\* (or an exception raised before the constructor is reached).  A key found
\* in _cache returns the instance kept there; otherwise a new instance is
\* initialised and entered.
Return(op, args, r) ==
    IF r.err # ""
    THEN /\ cache' = cache
         /\ last' = [op |-> op, args |-> args, err |-> r.err, msg |-> r.msg,
                     res |-> <<>>]
    ELSE IF r.key \in DOMAIN cache
    THEN /\ cache' = cache
         /\ last' = [op |-> op, args |-> args, err |-> "", msg |-> <<>>,
                     res |-> cache[r.key]]
    ELSE /\ Cardinality(DOMAIN cache) < MaxCache
         /\ InRange(r.key)
         /\ cache' = cache @@ (r.key :> _init(r.key[1], r.key[2], r.key[3]))
         /\ last' = [op |-> op, args |-> args, err |-> "", msg |-> <<>>,
                     res |-> _init(r.key[1], r.key[2], r.key[3])]

\* An operator that returns an existing instance without constructing.
ReturnSelf(op, args, x) ==
    /\ cache' = cache
    /\ last' = [op |-> op, args |-> args, err |-> "", msg |-> <<>>, res |-> x]

\* ABSqrtC(a, b, c) called from an operator with Fraction a, b and int c.
ABSqrtC(a, b, c) == new_key(a, b, FInt(c))

\* The arguments of a first constructor call.
Rats == {F(n, d) : n \in -MaxNum .. MaxNum, d \in 1 .. MaxDen}
Radicands == {FInt(c) : c \in -1 .. MaxRadicand}

\* The arguments a client of the operators constructs its operands from.
OperandRats == {FInt(n) : n \in 0 .. MaxOperand}
OperandRadicands == {FInt(c) : c \in -1 .. MaxOperandRadicand}

New1(a) == Return("ABSqrtC", <<a, None, None>>, new_key(a, None, None))

New2(a, c) == Return("ABSqrtC", <<a, c, None>>, new_key(a, c, None))

New3(a, b, c) == Return("ABSqrtC", <<a, b, c>>, new_key(a, b, c))

---------------------------------------------------------------------------
(* Operators of ABSqrtC on two instances.                                  *)

\* A variant of get_common_radical that settles on self's radical.
get_common_radical_of_self(self, o) ==
    IF self.radical = 1 THEN [err |-> "", radical |-> o.radical]
    ELSE [err |-> "", radical |-> self.radical]

\* get_common_radical: the radical, or the ValueError naming both radicals.
get_common_radical(self, o) ==
    IF self.radical = o.radical THEN [err |-> "", radical |-> self.radical]
    ELSE IF self.radical = 1 THEN [err |-> "", radical |-> o.radical]
    ELSE IF o.radical = 1 THEN [err |-> "", radical |-> self.radical]
    ELSE [err |-> "ValueError", radical |-> 0]

DifferentRadicals(self, o) == Raise("ValueError", <<self.radical, o.radical>>)

__add__(self, o) ==
    LET cr == get_common_radical(self, o)
    IN  IF cr.err # "" THEN DifferentRadicals(self, o)
        ELSE ABSqrtC(FAdd(self.add, o.add), FAdd(self.factor, o.factor), cr.radical)

__sub__(self, o) ==
    LET cr == get_common_radical(self, o)
    IN  IF cr.err # "" THEN DifferentRadicals(self, o)
        ELSE ABSqrtC(FSub(self.add, o.add), FSub(self.factor, o.factor), cr.radical)

__mul__(self, o) ==
    LET cr == get_common_radical(self, o)
        r == FInt(cr.radical)
    IN  IF cr.err # "" THEN DifferentRadicals(self, o)
        ELSE ABSqrtC(
               FAdd(FMul(self.add, o.add), FMul(FMul(self.factor, o.factor), r)),
               FAdd(FMul(self.add, o.factor), FMul(self.factor, o.add)),
               cr.radical)

\* A variant of __truediv__ whose factor numerator has its terms swapped.
truediv_swapped(self, o) ==
    LET cr == get_common_radical(self, o)
        r == FInt(cr.radical)
    IN  IF cr.err # "" THEN DifferentRadicals(self, o)
        ELSE IF FIsZero(o.conjugate_product)
        THEN Raise("ZeroDivisionError", <<>>)
        ELSE ABSqrtC(
               FDiv(FSub(FMul(self.add, o.add),
                         FMul(FMul(self.factor, o.factor), r)),
                    o.conjugate_product),
               FDiv(FSub(FMul(self.add, o.factor), FMul(self.factor, o.add)),
                    o.conjugate_product),
               cr.radical)

__truediv__(self, o) ==
    LET cr == get_common_radical(self, o)
        r == FInt(cr.radical)
    IN  IF cr.err # "" THEN DifferentRadicals(self, o)
        ELSE IF FIsZero(o.conjugate_product)
        THEN Raise("ZeroDivisionError", <<>>)
        ELSE ABSqrtC(
               FDiv(FSub(FMul(self.add, o.add),
                         FMul(FMul(self.factor, o.factor), r)),
                    o.conjugate_product),
               FDiv(FSub(FMul(self.factor, o.add), FMul(self.add, o.factor)),
                    o.conjugate_product),
               cr.radical)

\* math.comb
RECURSIVE comb(_, _)
comb(n, k) ==
    IF k = 0 THEN 1 ELSE IF k > n THEN 0
    ELSE comb(n - 1, k - 1) + comb(n - 1, k)

RECURSIVE IntPow(_, _)
IntPow(c, k) == IF k = 0 THEN 1 ELSE c * IntPow(c, k - 1)

\* comb(o, i) * a ** (o - i) * b ** i * c ** (i // 2)
pow_term(a, b, c, o, i) ==
    FMul(FMul(FMul(FInt(comb(o, i)), FPow(a, o - i)), FPow(b, i)),
         FInt(IntPow(c, i \div 2)))

\* for i in range(0, o, 2), from i on, with the sums so far.
RECURSIVE pow_loop(_, _, _, _, _, _, _)
pow_loop(a, b, c, o, i, add, factor) ==
    IF i >= o THEN <<add, factor>>
    ELSE pow_loop(a, b, c, o, i + 2,
                  FAdd(add, pow_term(a, b, c, o, i)),
                  FAdd(factor, pow_term(a, b, c, o, i + 1)))

\* A variant of __pow__ without the closing term of an even exponent.
pow_without_closing_term(self, o) ==
    LET s == pow_loop(self.add, self.factor, self.radical, o, 0, FInt(0), FInt(0))
    IN  ABSqrtC(s[1], s[2], self.radical)

__pow__(self, o) ==
    LET a == self.add
        b == self.factor
        c == self.radical
        s == pow_loop(a, b, c, o, 0, FInt(0), FInt(0))
        add == IF o % 2 = 0
               THEN FAdd(s[1], FMul(FPow(b, o), FInt(IntPow(c, o \div 2))))
               ELSE s[1]
    IN  ABSqrtC(add, s[2], self.radical)

__neg__(self) == ABSqrtC(FNeg(self.add), FNeg(self.factor), self.radical)

__invert__(self) == ABSqrtC(self.add, FNeg(self.factor), self.radical)

conjugate(self) == ABSqrtC(self.add, FNeg(self.factor), self.radical)

\* A variant of inverse that leaves the factor's sign.
inverse_unnegated(self) ==
    IF FIsZero(self.conjugate_product)
    THEN Raise("ZeroDivisionError", <<>>)
    ELSE ABSqrtC(FDiv(self.add, self.conjugate_product),
                 FDiv(self.factor, self.conjugate_product),
                 self.radical)

inverse(self) ==
    IF FIsZero(self.conjugate_product)
    THEN Raise("ZeroDivisionError", <<>>)
    ELSE ABSqrtC(FDiv(self.add, self.conjugate_product),
                 FDiv(FNeg(self.factor), self.conjugate_product),
                 self.radical)

__eq__(self, o) ==
    /\ self.add = o.add
    /\ self.factor = o.factor
    /\ self.radical = o.radical

---------------------------------------------------------------------------
(* The actions: one per call a client makes.                               *)

Add(x, y) == Return("__add__", <<x, y>>, __add__(x, y))

Sub(x, y) == Return("__sub__", <<x, y>>, __sub__(x, y))

Mul(x, y) == Return("__mul__", <<x, y>>, __mul__(x, y))

TrueDiv(x, y) == Return("__truediv__", <<x, y>>, __truediv__(x, y))

Pow(x, n) == Return("__pow__", <<x, n>>, __pow__(x, n))

Pos(x) == ReturnSelf("__pos__", <<x>>, x)

Neg(x) == Return("__neg__", <<x>>, __neg__(x))

\* __abs__: self if self._value >= 0, else the negation.
AbsValue(x) ==
    IF x.value >= 0
    THEN ReturnSelf("__abs__", <<x>>, x)
    ELSE Return("__abs__", <<x>>, __neg__(x))

Invert(x) == Return("__invert__", <<x>>, __invert__(x))

Conjugate(x) == Return("conjugate", <<x>>, conjugate(x))

Inverse(x) == Return("inverse", <<x>>, inverse(x))

\* x == y: the result is a bool, kept in last.eq.
Eq(x, y) ==
    /\ cache' = cache
    /\ last' = [op |-> "__eq__", args |-> <<x, y>>, err |-> "", msg |-> <<>>,
                res |-> <<>>, eq |-> __eq__(x, y)]

Init ==
    /\ cache = <<>>
    /\ last = [op |-> "", args |-> <<>>, err |-> "", msg |-> <<>>, res |-> <<>>]

Next ==
    \/ \E a \in OperandRats : New1(a)
    \/ \E a \in OperandRats, c \in OperandRadicands : New2(a, c)
    \/ \E a \in OperandRats, b \in OperandRats, c \in OperandRadicands :
          New3(a, b, c)
    \/ \E x \in Instances, y \in Instances : Add(x, y)
    \/ \E x \in Instances, y \in Instances : Sub(x, y)
    \/ \E x \in Instances, y \in Instances : Mul(x, y)
    \/ \E x \in Instances, y \in Instances : TrueDiv(x, y)
    \/ \E x \in Instances, n \in 0 .. MaxPow : Pow(x, n)
    \/ \E x \in Instances : Pos(x)
    \/ \E x \in Instances : Neg(x)
    \/ \E x \in Instances : AbsValue(x)
    \/ \E x \in Instances : Invert(x)
    \/ \E x \in Instances : Conjugate(x)
    \/ \E x \in Instances : Inverse(x)
    \/ \E x \in Instances, y \in Instances : Eq(x, y)

Spec == Init /\ [][Next]_vars

\* The first constructor call of a run, over the wider arguments.
NoCallYet == last.op = ""

NextNew ==
    \/ \E a \in Rats : NoCallYet /\ New1(a)
    \/ \E a \in Rats, c \in Radicands : NoCallYet /\ New2(a, c)
    \/ \E a \in Rats, b \in Rats, c \in Radicands : NoCallYet /\ New3(a, b, c)

SpecNew == Init /\ [][NextNew]_vars

---------------------------------------------------------------------------
(* Vocabulary of the properties.                                           *)

Key(x) == <<x.add, x.factor, x.radical>>

IsZeroValue(x) == FIsZero(x.add) /\ FIsZero(x.factor)

Squarefree(n) == \A k \in 2 .. n : n % (k * k) # 0

\* The largest s with s * s dividing c, for an integer c >= 1.
LargestSquareRoot(c) ==
    CHOOSE s \in 1 .. c :
        /\ c % (s * s) = 0
        /\ \A t \in (s + 1) .. c : c % (t * t) # 0

\* The last call was a constructor call; its factor and radicand arguments,
\* the two-argument form read as factor 1.
IsNew == last.op = "ABSqrtC"
NewA == last.args[1]
NewB == IF last.args[3] = None THEN FInt(1) ELSE last.args[2]
NewC == IF last.args[3] = None THEN last.args[2] ELSE last.args[3]
NewHasRadicand == IsNew /\ last.args[2] # None

Returned == last.err = ""

\* The triple the normalisation of (a, b, c) is to give, c an integer >= 1.
Normalized(a, b, c) ==
    LET s == LargestSquareRoot(c)
        r == c \div (s * s)
    IN  IF r = 1 THEN <<FAdd(a, FMul(b, FInt(s))), FInt(0), 1>>
        ELSE <<a, FMul(b, FInt(s)), r>>

---------------------------------------------------------------------------
\* C1: a constructor call with b # 0 and an integer radicand c >= 1 stores
\* (a + b*s, 0, 1) when c = s*s, and (a, b*s, c / (s*s)) otherwise, s the
\* largest integer whose square divides c; ABSqrtC(a, c) is read with b = 1.
C1_ConstructorNormalizes ==
    (NewHasRadicand /\ ~FIsZero(NewB) /\ NewC[2] = 1 /\ NewC[1] >= 1) =>
        /\ Returned
        /\ Key(last.res) = Normalized(NewA, NewB, NewC[1])
        /\ Key(last.res) \in DOMAIN cache
        /\ cache[Key(last.res)] = last.res

\* A call with a fractional b whose radicand has a square factor s > 1 and a
\* remainder > 1 has returned.
C1_Witness ==
    /\ IsNew /\ last.args[3] # None /\ Returned
    /\ NewB[2] > 1
    /\ NewC[1] >= 1
    /\ LargestSquareRoot(NewC[1]) > 1
    /\ last.res.radical > 1
    /\ last.res.factor = FMul(NewB, FInt(LargestSquareRoot(NewC[1])))

\* C2: ABSqrtC(a, b*k, c) == ABSqrtC(a, b, c*k*k) for k >= 1, c >= 1: the
\* value the call ABSqrtC(a, b, C) returned compares equal to the value of
\* ABSqrtC(a, b*k, C / (k*k)), for every k whose square divides C.
C2_EqualConstructions ==
    (IsNew /\ last.args[3] # None /\ NewC[2] = 1 /\ NewC[1] >= 1) =>
        /\ Returned
        /\ \A k \in 1 .. NewC[1] :
             NewC[1] % (k * k) = 0 =>
               LET other == new_key(NewA, FMul(NewB, FInt(k)),
                                    FInt(NewC[1] \div (k * k)))
               IN  /\ other.err = ""
                   /\ __eq__(last.res,
                             _init(other.key[1], other.key[2], other.key[3]))

\* ABSqrtC(a, b, c*k*k) has returned for b # 0, k >= 2 and c >= 2.
C2_Witness ==
    /\ IsNew /\ last.args[3] # None /\ Returned
    /\ ~FIsZero(NewB)
    /\ NewC[1] >= 1
    /\ \E k \in 2 .. NewC[1] :
         /\ NewC[1] % (k * k) = 0
         /\ NewC[1] \div (k * k) >= 2
         /\ Key(last.res) = <<NewA, FMul(NewB, FInt(k)), NewC[1] \div (k * k)>>

---------------------------------------------------------------------------
\* C3: every instance ever produced, by a constructor call with an integer
\* radicand >= 0 or by an operator, has a radical >= 1 that no square k*k,
\* k > 1, divides, and has radical 1 whenever its factor is 0.
Canonical(x) ==
    /\ x.radical >= 1
    /\ Squarefree(x.radical)
    /\ (FIsZero(x.factor) => x.radical = 1)

C3_CanonicalForm ==
    /\ \A x \in Instances : Canonical(x)
    /\ \A k \in DOMAIN cache : Key(cache[k]) = k
    /\ (last.op \notin {"", "__eq__"} /\ Returned) =>
          (Canonical(last.res) /\ last.res \in Instances)

\* The sum of two values with irrational parts has come out purely rational.
C3_Witness ==
    /\ last.op = "__add__" /\ Returned
    /\ last.args[1].radical > 1
    /\ last.args[2].radical > 1
    /\ FIsZero(last.res.factor)
    /\ last.res.radical = 1
    /\ ~FIsZero(last.res.add)

---------------------------------------------------------------------------
BinaryOps == {"__add__", "__sub__", "__mul__", "__truediv__"}

Incompatible(x, y) ==
    x.radical # y.radical /\ x.radical # 1 /\ y.radical # 1

\* C4: +, -, * and / on two values whose radicals differ and are both # 1
\* raise ValueError naming both radicals and produce no value; otherwise no
\* such error is raised, and the common radical is the other operand's
\* radical when one of them is 1 (or they are equal).
C4_IncompatibleRadicals ==
    last.op \in BinaryOps =>
        LET x == last.args[1]
            y == last.args[2]
            common == IF x.radical = 1 THEN y.radical ELSE x.radical
        IN  IF Incompatible(x, y)
            THEN /\ last.err = "ValueError"
                 /\ last.msg = <<x.radical, y.radical>>
                 /\ last.res = <<>>
            ELSE /\ last.err # "ValueError"
                 /\ get_common_radical(x, y) = [err |-> "", radical |-> common]
                 /\ (Returned /\ ~FIsZero(last.res.factor)) =>
                        last.res.radical = common

\* A product of values with radicals 2 and 3 was refused.
C4_Witness ==
    /\ last.op = "__mul__"
    /\ last.err = "ValueError"
    /\ Incompatible(last.args[1], last.args[2])
    /\ last.msg = <<last.args[1].radical, last.args[2].radical>>

---------------------------------------------------------------------------
\* C5: for x, y with compatible radicals, (x + y) - y == x, and, y not the
\* zero value, (x * y) / y == x: whenever the call after x + y is
\* (x + y) - y, and whenever the call after x * y is (x * y) / y, it returns
\* a value equal to x.
C5_Step ==
    /\ (/\ last.op = "__add__" /\ Returned
        /\ last'.op = "__sub__"
        /\ last'.args = <<last.res, last.args[2]>>)
       => (last'.err = "" /\ __eq__(last'.res, last.args[1]))
    /\ (/\ last.op = "__mul__" /\ Returned
        /\ ~IsZeroValue(last.args[2])
        /\ last'.op = "__truediv__"
        /\ last'.args = <<last.res, last.args[2]>>)
       => (last'.err = "" /\ __eq__(last'.res, last.args[1]))

C5_FieldClosure == [][C5_Step]_vars

\* (x * y) / y has returned x, where x * y is rational and x, y are not.
C5_Witness ==
    /\ last.op = "__truediv__" /\ Returned
    /\ last.args[1].radical = 1
    /\ last.args[2].radical > 1
    /\ last.res.radical > 1
    /\ last.res # last.args[2]
    /\ __mul__(last.res, last.args[2]).key = Key(last.args[1])

---------------------------------------------------------------------------
\* C6: x / y on compatible operands raises ZeroDivisionError exactly when y
\* is the zero value; the conjugate product add*add - factor*factor*radical
\* of an instance is 0 exactly when the instance is the zero value.
C6_DivisionByZero ==
    /\ \A y \in Instances :
         /\ y.conjugate_product =
              FSub(FMul(y.add, y.add),
                   FMul(FMul(y.factor, y.factor), FInt(y.radical)))
         /\ FIsZero(y.conjugate_product) <=> IsZeroValue(y)
    /\ (last.op = "__truediv__" /\ ~Incompatible(last.args[1], last.args[2]))
         => /\ last.err = "ZeroDivisionError" <=> IsZeroValue(last.args[2])
            /\ ~IsZeroValue(last.args[2]) => Returned

\* A value with an irrational part was divided by the zero value.
C6_Witness ==
    /\ last.op = "__truediv__"
    /\ last.err = "ZeroDivisionError"
    /\ IsZeroValue(last.args[2])
    /\ last.args[1].radical > 1

---------------------------------------------------------------------------
\* C7: a constructor call ABSqrtC(a, b, c) or ABSqrtC(a, c) with an integer
\* c < 0 raises ValueError and returns no value, whatever a and b are, b = 0
\* included.
C7_NegativeRadicandRejected ==
    (NewHasRadicand /\ FLess(NewC, FInt(0))) =>
        (last.err = "ValueError" /\ last.res = <<>>)

\* C8: ABSqrtC(a, b, 0) and ABSqrtC(a, 0) produce the triple (a, 0, 1): the
\* term b * sqrt(0) adds nothing to add.
C8_ZeroRadicandFolds ==
    (NewHasRadicand /\ FIsZero(NewC)) =>
        (Returned /\ Key(last.res) = <<NewA, FInt(0), 1>>)

\* C9: ABSqrtC(0, 0, 0) raises ValueError, and ABSqrtC(0, 0, 1) constructs.
C9_ConstructionTest ==
    IsNew =>
        /\ last.args = <<FInt(0), FInt(0), FInt(0)>> => last.err = "ValueError"
        /\ last.args = <<FInt(0), FInt(0), FInt(1)>> => Returned

---------------------------------------------------------------------------
One == <<FInt(1), FInt(0), 1>>

\* C10: x.inverse raises ZeroDivisionError for the zero value; for any other
\* x it is the normalisation of (add / N, -factor / N, radical), N the
\* conjugate product of x, and the call x * x.inverse that follows returns
\* the value ABSqrtC(1, 0, 1).
C10_Step ==
    /\ last'.op = "inverse" =>
         LET x == last'.args[1]
             N == x.conjugate_product
         IN  IF IsZeroValue(x)
             THEN last'.err = "ZeroDivisionError"
             ELSE /\ last'.err = ""
                  /\ Key(last'.res) =
                       Normalized(FDiv(x.add, N), FDiv(FNeg(x.factor), N),
                                  x.radical)
    /\ (/\ last.op = "inverse" /\ Returned
        /\ last'.op = "__mul__"
        /\ last'.args = <<last.args[1], last.res>>)
       => (last'.err = "" /\ Key(last'.res) = One)

C10_InverseIdentity == [][C10_Step]_vars

\* x * x.inverse has returned 1 for an x with an irrational part whose
\* inverse has a fractional factor.
C10_Witness ==
    /\ last.op = "__mul__" /\ Returned
    /\ last.args[1].radical > 1
    /\ inverse(last.args[1]).err = ""
    /\ inverse(last.args[1]).key = Key(last.args[2])
    /\ last.args[2].factor[2] > 1
    /\ Key(last.res) = One

---------------------------------------------------------------------------
\* A first constructor call over the wider arguments, then one power of the
\* value it returned.
NextPow ==
    \/ \E a \in Rats : NoCallYet /\ New1(a)
    \/ \E a \in Rats, b \in Rats, c \in Radicands : NoCallYet /\ New3(a, b, c)
    \/ \E n \in 0 .. MaxExponent : IsNew /\ Returned /\ Pow(last.res, n)

SpecPow == Init /\ [][NextPow]_vars

\* The fields of the value with canonical triple key that __mul__ reads.
Operand(key) == [add |-> key[1], factor |-> key[2], radical |-> key[3]]

\* ABSqrtC(1) multiplied by x with __mul__ n times.
RECURSIVE mul_times(_, _)
mul_times(x, n) ==
    IF n = 0 THEN new_key(FInt(1), None, None)
    ELSE __mul__(Operand(mul_times(x, n - 1).key), x)

\* C11: for every value x, the zero value and the rational values included,
\* and every n >= 0, x ** n returns the value that ABSqrtC(1) multiplied by x
\* n times with __mul__ gives; x ** 0 is ABSqrtC(1, 0, 1) and x ** 1 is x.
C11_PowerIsRepeatedMul ==
    /\ last.op = "__pow__" =>
          LET x == last.args[1]
              n == last.args[2]
          IN  /\ Returned
              /\ Key(last.res) = mul_times(x, n).key
              /\ n = 0 => Key(last.res) = One
              /\ n = 1 => last.res = x
    /\ (IsNew /\ Returned) =>
          \A n \in 0 .. MaxExponent :
              /\ __pow__(last.res, n).err = ""
              /\ __pow__(last.res, n) = mul_times(last.res, n)

\* An even power n >= 4 of a value with a rational and an irrational part has
\* returned a value with an irrational part.
C11_Witness ==
    /\ last.op = "__pow__" /\ Returned
    /\ last.args[2] >= 4 /\ last.args[2] % 2 = 0
    /\ last.args[1].radical > 1
    /\ ~FIsZero(last.args[1].add)
    /\ last.res.radical > 1
    /\ Key(last.res) = mul_times(last.args[1], last.args[2]).key

---------------------------------------------------------------------------
\* A first constructor call whose radicand argument is a Fraction.
FractionRadicands ==
    {F(n, d) : n \in 1 .. MaxRadicand, d \in 1 .. MaxRadicandDen}

NextFraction ==
    \/ \E a \in Rats, c \in FractionRadicands : NoCallYet /\ New2(a, c)
    \/ \E a \in Rats, b \in Rats, c \in FractionRadicands :
          NoCallYet /\ New3(a, b, c)

SpecFraction == Init /\ [][NextFraction]_vars

\* C12: a constructor call whose radicand argument is not an integer (the
\* Fraction 1/2 or 1/4, say) fails with a type error, whatever a and b are,
\* and constructs no value, so that _cache holds no instance for it.
C12_NonIntegerRadicalRejected ==
    (NewHasRadicand /\ NewC[2] # 1) =>
        /\ last.err = "TypeError"
        /\ last.res = <<>>
        /\ cache = <<>>

---------------------------------------------------------------------------
\* C13: no constructor call and no operator, whether it returns or raises,
\* changes the add, factor, radical or value of an instance constructed
\* before it, the operands included; and a call that raises ValueError or
\* ZeroDivisionError leaves _cache as it was.
C13_Step ==
    /\ \A k \in DOMAIN cache :
          /\ k \in DOMAIN cache'
          /\ cache'[k].add = cache[k].add
          /\ cache'[k].factor = cache[k].factor
          /\ cache'[k].radical = cache[k].radical
          /\ cache'[k].value = cache[k].value
    /\ last'.err # "" => cache' = cache

C13_NoMutation == [][C13_Step]_vars

\* A division of two instances raised ZeroDivisionError, and both operands
\* are the instances _cache still holds under their triples.
C13_Witness ==
    /\ last.op = "__truediv__"
    /\ last.err = "ZeroDivisionError"
    /\ last.args[1] # last.args[2]
    /\ \A i \in 1 .. 2 :
          /\ Key(last.args[i]) \in DOMAIN cache
          /\ cache[Key(last.args[i])] = last.args[i]

---------------------------------------------------------------------------
(* Release of instances: reference counting and ABSqrtC.__del__.            *)

\* The references to the instance under triple k that are left once the
\* caller has released its own: the entry line 57 put in _cache.
references_left(k) == IF k \in DOMAIN cache THEN 1 ELSE 0

\* __del__: pop the instance's triple from _cache.
__del__(c, k) == [j \in DOMAIN c \ {k} |-> c[j]]

\* The interpreter finalizes an instance when no reference to it is left.
RECURSIVE finalize(_, _)
finalize(c, keys) ==
    IF keys = {} THEN c
    ELSE LET k == CHOOSE j \in keys : TRUE
         IN  finalize(IF references_left(k) = 0 THEN __del__(c, k) ELSE c,
                      keys \ {k})

\* The caller releases every reference it holds: the result and the
\* arguments of its calls.
Release ==
    /\ last.op \notin {"", "del"}
    /\ cache' = finalize(cache, DOMAIN cache)
    /\ last' = [op |-> "del", args |-> <<>>, err |-> "", msg |-> <<>>,
                res |-> <<>>]

\* A client that constructs values and releases them, again and again.
NextRelease ==
    \/ \E a \in OperandRats : New1(a)
    \/ \E a \in OperandRats, c \in OperandRadicands : New2(a, c)
    \/ \E a \in OperandRats, b \in OperandRats, c \in OperandRadicands :
          New3(a, b, c)
    \/ Release

SpecRelease == Init /\ [][NextRelease]_vars /\ WF_vars(Release)

\* C14: once the references held outside _cache to the constructed
\* instances are released, their entries are eventually removed from _cache
\* by __del__: the cache eventually becomes empty.
C14_CacheEviction == (last.op = "del") ~> (cache = <<>>)

===========================================================================
